---- MODULE Spec2Model ----
(***************************************************************************)
(* FPGA design-flow orchestration of ts-verilog-simulator:                 *)
(* FPGAFlowService (backend/app/services/fpga_flow_service.py) and the     *)
(* four stage services it drives.  One call of an entry point is a run;    *)
(* pc is the position of the run inside run_complete_flow.                 *)
(***************************************************************************)
EXTENDS Integers, Sequences, FiniteSets, TLC

VARIABLES
    pc,             \* position of the current run
    entry,          \* entry point of the current run
    request,        \* arguments of the current run, as passed by the caller
    stages,         \* content of the list the local name `stages` refers to
    stages_ref,     \* which list object `stages` names: caller, literal, copy, self
    caller_stages,  \* content of the caller's own list object (when one was passed)
    flow_stages,    \* self.flow_stages
    results,        \* the local `results` dict of run_complete_flow
    ret,            \* the tuple returned to the caller
    calls,          \* stage adapters invoked in this run, in order
    tools,          \* external tools started (subprocess.run) in this run, in order
    workdir,        \* temporary directory of the adapter call in progress (0: none)
    live_dirs,      \* temporary directories that exist on the file system
    cancelled,      \* the stage that was executing when the caller gave the run up
    other,          \* a second call on the same service instance, while it is not running
    sim_pc,         \* position of the compile_and_simulate generator
    max_chunks,     \* VerilogSimulator.max_chunks
    chunk_count,    \* the local chunk_count of compile_and_simulate
    current_time,   \* the local current_time of compile_and_simulate
    temp_dir,       \* the generator's temporary directory: None, "exists", "removed"
    yielded,        \* the results the generator has yielded, in order
    vcd_exists,     \* os.path.exists(vcd_path), in the generator's temporary directory
    vcd_content,    \* length of the text in the VCD file
    last_vcd_content, \* length of the local last_vcd_content
    sim_tools       \* iverilog / vvp invocations of this call, in order

flow_vars == <<pc, entry, request, stages, stages_ref, caller_stages, flow_stages,
               results, ret, calls, tools, workdir, live_dirs, cancelled, other>>
sim_vars == <<sim_pc, max_chunks, chunk_count, current_time, temp_dir, yielded,
              vcd_exists, vcd_content, last_vcd_content, sim_tools>>
vars == <<pc, entry, request, stages, stages_ref, caller_stages, flow_stages,
          results, ret, calls, tools, workdir, live_dirs, cancelled, other,
          sim_pc, max_chunks, chunk_count, current_time, temp_dir, yielded,
          vcd_exists, vcd_content, last_vcd_content, sim_tools>>

(***************************************************************************)
(* Python values.  None and the empty string are the two falsy strings;    *)
(* a dict is a function and {} is the function with the empty domain.      *)
(***************************************************************************)
None == "None"
EmptyDict == [k \in {} |-> None]
Range(s) == {s[i] : i \in DOMAIN s}
Has(d, k) == k \in DOMAIN d
Get(d, k) == IF k \in DOMAIN d THEN d[k] ELSE None
Put(d, k, v) == [x \in (DOMAIN d) \cup {k} |-> IF x = k THEN v ELSE d[x]]
\* mutant of Falsy: tests `is None` only, so an empty string passes
Falsy_none_only(v) == v = None
Falsy(v) == v = None \/ v = ""

\* Bounds of the model.
MaxStages == 3
MaxDirs == 2

RECURSIVE SeqsUpTo(_, _)
SeqsUpTo(S, n) ==
    IF n = 0 THEN {<<>>}
    ELSE LET shorter == SeqsUpTo(S, n - 1)
         IN  shorter \cup {Append(q, x) : q \in {r \in shorter : Len(r) = n - 1}, x \in S}

FlowStages == <<"synthesis", "implementation", "bitstream_generation", "programming">>
StageNames == Range(FlowStages)

\* The `stages` argument: None, or a list of stage names in any order.
NoStages == [given |-> FALSE, list |-> <<>>]
StagesInputs ==
    {NoStages} \cup {[given |-> TRUE, list |-> q] : q \in SeqsUpTo(StageNames, MaxStages)}

(***************************************************************************)
(* Device tables: each service's supported_devices, flattened to           *)
(* family -> parts by validate_device's loop over the device types.        *)
(***************************************************************************)
Families == {"xilinx_7series", "lattice_ice40", "lattice_ecp5"}

SynthesisDevices ==
    [f \in Families |->
        CASE f = "xilinx_7series" ->
                {"xc7a35t", "xc7a50t", "xc7a100t", "xc7k70t", "xc7k160t",
                 "xc7vx330t", "xc7vx485t"}
          [] f = "lattice_ice40" -> {"hx8k", "lp8k", "up5k"}
          [] f = "lattice_ecp5" -> {"lfe5u-25f", "lfe5u-45f", "lfe5u-85f"}]

ImplementationDevices ==
    [f \in Families |->
        CASE f = "xilinx_7series" ->
                {"xc7a35t", "xc7a50t", "xc7a100t", "xc7k70t", "xc7k160t",
                 "xc7vx330t", "xc7vx485t"}
          [] f = "lattice_ice40" -> {"hx8k", "lp8k", "up5k"}
          [] f = "lattice_ecp5" -> {"lfe5u-25f", "lfe5u-45f", "lfe5u-85f"}]

BitstreamDevices ==
    [f \in Families |->
        CASE f = "xilinx_7series" ->
                {"xc7a35t", "xc7a50t", "xc7a100t", "xc7k70t", "xc7k160t",
                 "xc7vx330t", "xc7vx485t"}
          [] f = "lattice_ice40" -> {"hx8k", "lp8k", "up5k"}
          [] f = "lattice_ecp5" -> {"lfe5u-25f", "lfe5u-45f", "lfe5u-85f"}]

\* mutant of ProgrammingDevices: the programming table lacks the ECP5 family
ProgrammingDevices_without_ecp5 ==
    [f \in Families \ {"lattice_ecp5"} |->
        CASE f = "xilinx_7series" ->
                {"xc7a35t", "xc7a50t", "xc7a100t", "xc7k70t", "xc7k160t",
                 "xc7vx330t", "xc7vx485t"}
          [] f = "lattice_ice40" -> {"hx8k", "lp8k", "up5k"}]

ProgrammingDevices ==
    [f \in Families |->
        CASE f = "xilinx_7series" ->
                {"xc7a35t", "xc7a50t", "xc7a100t", "xc7k70t", "xc7k160t",
                 "xc7vx330t", "xc7vx485t"}
          [] f = "lattice_ice40" -> {"hx8k", "lp8k", "up5k"}
          [] f = "lattice_ecp5" -> {"lfe5u-25f", "lfe5u-45f", "lfe5u-85f"}]

\* mutant of validate_device: looks the family up and forgets the part
validate_device_family_only(table, device_family, device_part) ==
    device_family \in DOMAIN table

\* <Service>.validate_device
validate_device(table, device_family, device_part) ==
    IF device_family \notin DOMAIN table THEN FALSE
    ELSE device_part \in table[device_family]

\* FPGAFlowService._validate_device: the conjunction over the four services
_validate_device(device_family, device_part) ==
    /\ validate_device(SynthesisDevices, device_family, device_part)
    /\ validate_device(ImplementationDevices, device_family, device_part)
    /\ validate_device(BitstreamDevices, device_family, device_part)
    /\ validate_device(ProgrammingDevices, device_family, device_part)

\* Devices a caller may name: one listed part per family, a part of another
\* family, an unknown family, an unknown part.
FamilyInputs == Families \cup {"spartan6"}
PartInputs == {"xc7a35t", "hx8k", "lfe5u-25f", "bogus"}

(***************************************************************************)
(* External tools.  A tool invocation either cannot be started             *)
(* (subprocess.run raises) or runs and exits with a return code, leaving   *)
(* its declared output file absent (None), empty, or with content, and     *)
(* printing the metric lines in stdout.                                    *)
(***************************************************************************)
NetlistText == "netlist-json-text"
FasmText == "fasm-text"
MockFasmText == "# Mock FASM file"
AscText == "asc-text"
ConfigText == "config-text"
BitstreamBytes == "bitstream-bytes"
MockBitstreamBytes == "mock-bitstream-bytes"

ToolRuns(content, stdouts) ==
    {[started |-> FALSE, returncode |-> 1, file |-> None, stdout |-> EmptyDict]}
        \cup [started : {TRUE}, returncode : {0, 1}, file : {None, "", content},
              stdout : stdouts]

\* What the first (Yosys preparation) run of the implementation adapter does.
PrepRuns == {"not_started", "failed", "ok"}

\* Yosys prints no cell-count line at all, or the LUT line only.
SynthStdouts == {EmptyDict, [k \in {"LUT"} |-> 5]}
ImplStdouts == {EmptyDict}
ProgStdouts == {EmptyDict}

\* One subprocess.run call: the tool, whether it could be started, its return
\* code, what it left in its declared output file and the metrics it printed.
Ran(tool, o) ==
    [tool |-> tool, started |-> o.started, returncode |-> o.returncode,
     file |-> o.file, stdout |-> o.stdout]

PrepRan(prep) ==
    [tool |-> "yosys", started |-> prep # "not_started",
     returncode |-> IF prep = "ok" THEN 0 ELSE 1, file |-> None,
     stdout |-> EmptyDict]

\* Outcome of an adapter call: the returned tuple, and the tools it started.
Outcome(success, output, res, started) ==
    [success |-> success, output |-> output, results |-> res, tools |-> started]

\* SynthesisService._parse_synthesis_stats: every count defaults to 0
_parse_synthesis_stats(stdout) ==
    [lut_count   |-> IF Has(stdout, "LUT") THEN stdout["LUT"] ELSE 0,
     ff_count    |-> IF Has(stdout, "FF") THEN stdout["FF"] ELSE 0,
     total_cells |-> IF Has(stdout, "Total") THEN stdout["Total"] ELSE 0]

\* mutant of _synthesize_family: never reads the netlist file back
_synthesize_family_drops_netlist(device_family, device_part, o) ==
    IF ~o.started
    THEN Outcome(FALSE, "synthesis failed: exception", EmptyDict, <<Ran("yosys", o)>>)
    ELSE Outcome(o.returncode = 0, "yosys stdout+stderr",
                 [netlist_json  |-> None,
                  statistics    |-> [lut_count |-> 0, ff_count |-> 0, total_cells |-> 0],
                  device_part   |-> device_part,
                  device_family |-> device_family],
                 <<Ran("yosys", o)>>)

\* SynthesisService._synthesize_xilinx_7series / _lattice_ice40 / _lattice_ecp5:
\* the three differ only in the script text and the family they record.
_synthesize_family(device_family, device_part, o) ==
    IF ~o.started
    THEN Outcome(FALSE, "synthesis failed: exception", EmptyDict, <<Ran("yosys", o)>>)
    ELSE Outcome(o.returncode = 0, "yosys stdout+stderr",
                 [netlist_json  |-> o.file,
                  statistics    |-> _parse_synthesis_stats(o.stdout),
                  device_part   |-> device_part,
                  device_family |-> device_family],
                 <<Ran("yosys", o)>>)

\* SynthesisService.synthesize_design
synthesize_design(verilog_code, top_module, device_family, device_part, o) ==
    IF device_family \in Families
    THEN _synthesize_family(device_family, device_part, o)
    ELSE Outcome(FALSE, "Unsupported device family", EmptyDict, <<>>)

\* ImplementationService._parse_utilization_report: percentages default to 0;
\* a percentage is kept in tenths of a percent, as the summary prints it.
_parse_utilization_report(stdout) ==
    LET pct(label) ==
            IF Has(stdout, label) /\ stdout[label][2] > 0
            THEN (stdout[label][1] * 2000 + stdout[label][2]) \div (2 * stdout[label][2])
            ELSE 0
    IN  [lut_percentage |-> pct("LUT"), ff_percentage |-> pct("FF")]

\* FPGAFlowService._get_implementation_data's key per family
ImplKey(device_family) ==
    CASE device_family = "xilinx_7series" -> "fasm_file"
      [] device_family = "lattice_ice40" -> "asc_file"
      [] device_family = "lattice_ecp5" -> "config_file"

PnrTool(device_family) ==
    CASE device_family = "xilinx_7series" -> "nextpnr-xilinx"
      [] device_family = "lattice_ice40" -> "nextpnr-ice40"
      [] device_family = "lattice_ecp5" -> "nextpnr-ecp5"

PlacementText(device_family) ==
    CASE device_family = "xilinx_7series" -> FasmText
      [] device_family = "lattice_ice40" -> AscText
      [] device_family = "lattice_ecp5" -> ConfigText

ImplResults(device_family, device_part, file, stdout) ==
    [k \in {ImplKey(device_family), "utilization_report", "device_part", "device_family"} |->
        CASE k = "utilization_report" -> _parse_utilization_report(stdout)
          [] k = "device_part" -> device_part
          [] k = "device_family" -> device_family
          [] OTHER -> file]

\* ImplementationService._implement_xilinx_7series: Yosys, then nextpnr-xilinx
\* when F4PGA and the chip database are installed, else a mock result.
_implement_xilinx_7series(device_part, env, prep, o) ==
    IF prep = "not_started"
    THEN Outcome(FALSE, "implementation failed: exception", EmptyDict, <<PrepRan(prep)>>)
    ELSE IF prep = "failed"
    THEN Outcome(FALSE, "yosys stdout+stderr", EmptyDict, <<PrepRan(prep)>>)
    ELSE IF env.f4pga /\ env.chipdb
    THEN IF ~o.started
         THEN Outcome(FALSE, "implementation failed: exception", EmptyDict,
                      <<PrepRan(prep), Ran("nextpnr-xilinx", o)>>)
         ELSE Outcome(o.returncode = 0, "nextpnr stdout+stderr",
                      ImplResults("xilinx_7series", device_part, o.file, o.stdout),
                      <<PrepRan(prep), Ran("nextpnr-xilinx", o)>>)
    ELSE Outcome(TRUE, "Mock implementation completed",
                 ImplResults("xilinx_7series", device_part, MockFasmText, EmptyDict),
                 <<PrepRan(prep)>>)

\* ImplementationService._implement_lattice_ice40 / _implement_lattice_ecp5
_implement_lattice(device_family, device_part, prep, o) ==
    IF prep = "not_started"
    THEN Outcome(FALSE, "implementation failed: exception", EmptyDict, <<PrepRan(prep)>>)
    ELSE IF prep = "failed"
    THEN Outcome(FALSE, "yosys stdout+stderr", EmptyDict, <<PrepRan(prep)>>)
    ELSE IF ~o.started
    THEN Outcome(FALSE, "implementation failed: exception", EmptyDict,
                 <<PrepRan(prep), Ran(PnrTool(device_family), o)>>)
    ELSE Outcome(o.returncode = 0, "nextpnr stdout+stderr",
                 ImplResults(device_family, device_part, o.file, o.stdout),
                 <<PrepRan(prep), Ran(PnrTool(device_family), o)>>)

\* File names and command arguments are tuples of their parts.
\* `constraints_file`: set only `if constraints:`
HasConstraintsFile(constraints) == ~Falsy(constraints)

\* implement_design, before it dispatches: the files written into temp_path
WrittenFiles(top_module, constraints) ==
    {<<top_module, "_netlist.json">>}
        \cup (IF HasConstraintsFile(constraints) THEN {<<top_module, ".xdc">>} ELSE {})

\* the constraint file the Yosys script of a family reads (read_pcf / read_lpf)
ScriptRefs(device_family, top_module, constraints) ==
    IF ~HasConstraintsFile(constraints) THEN {}
    ELSE IF device_family = "lattice_ice40" THEN {<<top_module, ".pcf">>}
    ELSE IF device_family = "lattice_ecp5" THEN {<<top_module, ".lpf">>}
    ELSE {}

\* `[arg for arg in nextpnr_cmd if arg is not None]`
NoneArg == <<None>>
RemoveNone(cmd) == SelectSeq(cmd, LAMBDA arg : arg # NoneArg)

\* the place-and-route command of each family
nextpnr_cmd(device_family, top_module, device_part, constraints) ==
    IF device_family = "lattice_ice40"
    THEN RemoveNone(<< <<"nextpnr-ice40">>,
                       <<"--json">>, <<top_module, "_impl.json">>,
                       <<"--pcf">>, IF HasConstraintsFile(constraints)
                                    THEN <<top_module, ".pcf">> ELSE NoneArg,
                       <<"--asc">>, <<top_module, ".asc">>,
                       <<"--freq">>, <<"12">> >>)
    ELSE IF device_family = "lattice_ecp5"
    THEN RemoveNone(<< <<"nextpnr-ecp5">>,
                       <<"--json">>, <<top_module, "_impl.json">>,
                       <<"--lpf">>, IF HasConstraintsFile(constraints)
                                    THEN <<top_module, ".lpf">> ELSE NoneArg,
                       <<"--textcfg">>, <<top_module, ".config">>,
                       <<"--freq">>, <<"25">> >>)
    ELSE << <<"nextpnr-xilinx">>,
            <<"--chipdb">>, <<"/opt/f4pga-arch-defs/xilinx/xc7/chipdb/", device_part, ".bin">>,
            <<"--json">>, <<top_module, "_impl.json">>,
            <<"--write">>, <<top_module, "_routed.json">>,
            <<"--fasm">>, <<top_module, ".fasm">> >>
         \o (IF HasConstraintsFile(constraints)
             THEN << <<"--xdc">>, <<top_module, ".xdc">> >> ELSE <<>>)

\* the constraint files a command names
ConstraintFiles(top_module) ==
    {<<top_module, ".xdc">>, <<top_module, ".pcf">>, <<top_module, ".lpf">>}
CmdRefs(cmd, top_module) == Range(cmd) \cap ConstraintFiles(top_module)

\* One tool run of the implementation adapter, with the command it was given,
\* the constraint files its script or command refers to, and the files that
\* were in the workspace when it was invoked.
Invocation(ran, device_family, top_module, device_part, constraints) ==
    LET cmd == IF ran.tool = "yosys"
               THEN << <<"yosys">>, <<"-s">>, <<"implementation.ys">> >>
               ELSE nextpnr_cmd(device_family, top_module, device_part, constraints)
    IN  [tool |-> ran.tool, started |-> ran.started, returncode |-> ran.returncode,
         file |-> ran.file, stdout |-> ran.stdout,
         cmd   |-> cmd,
         refs  |-> IF ran.tool = "yosys"
                   THEN ScriptRefs(device_family, top_module, constraints)
                   ELSE CmdRefs(cmd, top_module),
         files |-> WrittenFiles(top_module, constraints) \cup {<<"implementation.ys">>}]

\* ImplementationService.implement_design
implement_design(netlist_json, top_module, device_family, device_part, constraints, env, prep, o) ==
    LET out == IF device_family = "xilinx_7series"
               THEN _implement_xilinx_7series(device_part, env, prep, o)
               ELSE IF device_family \in {"lattice_ice40", "lattice_ecp5"}
               THEN _implement_lattice(device_family, device_part, prep, o)
               ELSE Outcome(FALSE, "Unsupported device family", EmptyDict, <<>>)
    IN  [out EXCEPT !.tools =
            [i \in DOMAIN out.tools |->
                Invocation(out.tools[i], device_family, top_module, device_part,
                           constraints)]]


\* len() of the bitstream bytes read back, as bitstream_size records it
BytesLen(b) == IF b = "" THEN 0 ELSE IF b = MockBitstreamBytes THEN 800 ELSE 4

BitstreamResults(device_family, device_part, file) ==
    [bitstream_file |-> file,
     bitstream_size |-> IF file = None THEN 0 ELSE BytesLen(file),
     device_part    |-> device_part,
     device_family  |-> device_family]

\* BitstreamService._generate_xilinx_7series_bitstream: python3 -m fasm when the
\* F4PGA database is installed, else a mock bitstream
_generate_xilinx_7series_bitstream(device_part, data_format, env, o) ==
    IF data_format # "fasm"
    THEN Outcome(FALSE, "Xilinx 7-Series requires FASM format", EmptyDict, <<>>)
    ELSE IF env.f4pga
    THEN IF ~o.started
         THEN Outcome(FALSE, "bitstream generation failed: exception", EmptyDict,
                      <<Ran("fasm", o)>>)
         ELSE Outcome(o.returncode = 0, "fasm stdout+stderr",
                      BitstreamResults("xilinx_7series", device_part, o.file),
                      <<Ran("fasm", o)>>)
    ELSE Outcome(TRUE, "Mock bitstream generation completed",
                 BitstreamResults("xilinx_7series", device_part, MockBitstreamBytes),
                 <<>>)

\* mutant of _generate_lattice_ice40_bitstream: icepack is run whatever the
\* declared format
_generate_lattice_ice40_bitstream_unchecked(device_part, data_format, o) ==
    IF ~o.started
    THEN Outcome(FALSE, "bitstream generation failed: exception", EmptyDict,
                 <<Ran("icepack", o)>>)
    ELSE Outcome(o.returncode = 0, "icepack stdout+stderr",
                 BitstreamResults("lattice_ice40", device_part, o.file),
                 <<Ran("icepack", o)>>)

\* BitstreamService._generate_lattice_ice40_bitstream (icepack)
_generate_lattice_ice40_bitstream(device_part, data_format, o) ==
    IF data_format # "asc"
    THEN Outcome(FALSE, "Lattice iCE40 requires ASC format", EmptyDict, <<>>)
    ELSE IF ~o.started
    THEN Outcome(FALSE, "bitstream generation failed: exception", EmptyDict,
                 <<Ran("icepack", o)>>)
    ELSE Outcome(o.returncode = 0, "icepack stdout+stderr",
                 BitstreamResults("lattice_ice40", device_part, o.file),
                 <<Ran("icepack", o)>>)

\* BitstreamService._generate_lattice_ecp5_bitstream (ecppack)
_generate_lattice_ecp5_bitstream(device_part, data_format, o) ==
    IF data_format # "config"
    THEN Outcome(FALSE, "Lattice ECP5 requires config format", EmptyDict, <<>>)
    ELSE IF ~o.started
    THEN Outcome(FALSE, "bitstream generation failed: exception", EmptyDict,
                 <<Ran("ecppack", o)>>)
    ELSE Outcome(o.returncode = 0, "ecppack stdout+stderr",
                 BitstreamResults("lattice_ecp5", device_part, o.file),
                 <<Ran("ecppack", o)>>)

\* BitstreamService.generate_bitstream
generate_bitstream(implementation_data, top_module, device_family, device_part, data_format, env, o) ==
    IF data_format \notin {"fasm", "asc", "config"}
    THEN Outcome(FALSE, "Unsupported data format", EmptyDict, <<>>)
    ELSE IF device_family = "xilinx_7series"
    THEN _generate_xilinx_7series_bitstream(device_part, data_format, env, o)
    ELSE IF device_family = "lattice_ice40"
    THEN _generate_lattice_ice40_bitstream(device_part, data_format, o)
    ELSE IF device_family = "lattice_ecp5"
    THEN _generate_lattice_ecp5_bitstream(device_part, data_format, o)
    ELSE Outcome(FALSE, "Unsupported device family", EmptyDict, <<>>)

\* ProgrammingService._extract_programming_time: 0 when no time line is printed
_extract_programming_time(stdout) ==
    IF Has(stdout, "time") THEN stdout["time"] ELSE 0

\* ProgrammingService._program_device (openFPGALoader)
_program_device(bitstream_data, device_family, device_part, o) ==
    IF ~o.started
    THEN Outcome(FALSE, "device programming failed: exception", EmptyDict,
                 <<Ran("openFPGALoader", o)>>)
    ELSE Outcome(o.returncode = 0, "openFPGALoader stdout+stderr",
                 [programming_success |-> o.returncode = 0,
                  programming_time    |-> IF o.returncode = 0
                                          THEN _extract_programming_time(o.stdout)
                                          ELSE 0,
                  bitstream_size      |-> BytesLen(bitstream_data),
                  device_part         |-> device_part,
                  device_family       |-> device_family],
                 <<Ran("openFPGALoader", o)>>)

\* ProgrammingService.program_fpga
program_fpga(bitstream_data, device_family, device_part, o) ==
    IF device_family \in Families
    THEN _program_device(bitstream_data, device_family, device_part, o)
    ELSE Outcome(FALSE, "Unsupported device family", EmptyDict, <<>>)

\* FPGAFlowService._get_implementation_data
_get_implementation_data(impl_results, device_family) ==
    IF device_family = "xilinx_7series" THEN Get(impl_results, "fasm_file")
    ELSE IF device_family = "lattice_ice40" THEN Get(impl_results, "asc_file")
    ELSE IF device_family = "lattice_ecp5" THEN Get(impl_results, "config_file")
    ELSE None

\* mutant of _get_data_format: the two Lattice formats are exchanged
_get_data_format_swapped(device_family) ==
    IF device_family = "xilinx_7series" THEN "fasm"
    ELSE IF device_family = "lattice_ice40" THEN "config"
    ELSE IF device_family = "lattice_ecp5" THEN "asc"
    ELSE "unknown"

\* mutant of _get_data_format: iCE40 is given the Xilinx format
_get_data_format_shared(device_family) ==
    IF device_family = "lattice_ecp5" THEN "config" ELSE "fasm"

\* FPGAFlowService._get_data_format
_get_data_format(device_family) ==
    IF device_family = "xilinx_7series" THEN "fasm"
    ELSE IF device_family = "lattice_ice40" THEN "asc"
    ELSE IF device_family = "lattice_ecp5" THEN "config"
    ELSE "unknown"


(***************************************************************************)
(* FPGAFlowService._generate_flow_summary: the digest as a list of lines,  *)
(* each line the list of its parts.                                        *)
(***************************************************************************)
RECURSIVE MarkLines(_, _)
MarkLines(mark, names) ==
    IF names = <<>> THEN <<>>
    ELSE << <<mark, Head(names)>> >> \o MarkLines(mark, Tail(names))

StageSummary(stage, stage_result) ==
    LET res == stage_result.results
        GetOr0(d, k) == IF Has(d, k) THEN d[k] ELSE 0
        metrics ==
            IF stage = "synthesis" /\ Has(res, "statistics")
            THEN << <<"  LUTs: ", GetOr0(res["statistics"], "lut_count")>>,
                    <<"  FFs: ", GetOr0(res["statistics"], "ff_count")>>,
                    <<"  Total Cells: ", GetOr0(res["statistics"], "total_cells")>> >>
            ELSE IF stage = "implementation" /\ Has(res, "utilization_report")
            THEN << <<"  LUT Usage: ", GetOr0(res["utilization_report"], "lut_percentage")>>,
                    <<"  FF Usage: ", GetOr0(res["utilization_report"], "ff_percentage")>> >>
            ELSE IF stage = "bitstream_generation" /\ Has(res, "bitstream_size")
            THEN << <<"  Bitstream Size: ", res["bitstream_size"]>> >>
            ELSE IF stage = "programming" /\ Has(res, "programming_time")
            THEN << <<"  Programming Time: ", res["programming_time"]>> >>
            ELSE <<>>
    IN  IF stage_result.success
        THEN << <<stage, " Results:">> >> \o metrics \o << <<"">> >>
        ELSE <<>>

RECURSIVE StageSummaries(_, _)
StageSummaries(order, stage_results) ==
    IF order = <<>> THEN <<>>
    ELSE StageSummary(Head(order), stage_results[Head(order)])
            \o StageSummaries(Tail(order), stage_results)

\* the keys of stage_results in insertion order, which is the flow order
InsertionOrder(stage_results) ==
    SelectSeq(FlowStages, LAMBDA s : s \in DOMAIN stage_results)

_generate_flow_summary(res) ==
    << <<"=== FPGA Design Flow Summary ===">>,
       <<"Device: ", res.device_family, res.device_part>>,
       <<"Top Module: ", res.top_module>>,
       <<"Overall Success: ", res.overall_success>>,
       <<"">>,
       <<"Stages Completed:">> >>
    \o MarkLines("  ok ", res.stages_completed)
    \o (IF res.stages_failed # <<>>
        THEN << <<"Stages Failed:">> >> \o MarkLines("  x ", res.stages_failed)
        ELSE <<>>)
    \o << <<"">> >>
    \o StageSummaries(InsertionOrder(res.stage_results), res.stage_results)

(***************************************************************************)
(* The run.                                                                *)
(***************************************************************************)
NoReturn == [success |-> FALSE, output |-> <<>>, results |-> EmptyDict]

Envs == [f4pga : BOOLEAN, chipdb : BOOLEAN]

CodeInputs == {"module top"}
TopInputs == {"top"}
ConstraintInputs == {None, "set_io clk 21"}

\* The local state of one call, and the state of a call that has not begun.
CurrentFrame ==
    [pc |-> pc, entry |-> entry, request |-> request, stages |-> stages,
     stages_ref |-> stages_ref, caller_stages |-> caller_stages,
     results |-> results, ret |-> ret, calls |-> calls, tools |-> tools,
     workdir |-> workdir, cancelled |-> cancelled]

NoFrame ==
    [pc |-> "idle", entry |-> "none", request |-> EmptyDict, stages |-> <<>>,
     stages_ref |-> "none", caller_stages |-> NoStages,
     results |-> EmptyDict, ret |-> NoReturn, calls |-> <<>>, tools |-> <<>>,
     workdir |-> 0, cancelled |-> None]

Init ==
    /\ pc = "idle"
    /\ entry = "none"
    /\ request = EmptyDict
    /\ stages = <<>>
    /\ stages_ref = "none"
    /\ caller_stages = NoStages
    /\ flow_stages = FlowStages
    /\ results = EmptyDict
    /\ ret = NoReturn
    /\ calls = <<>>
    /\ tools = <<>>
    /\ workdir = 0
    /\ live_dirs = {}
    /\ cancelled = None
    /\ other = NoFrame
    /\ sim_pc = "idle"
    /\ max_chunks = 1
    /\ chunk_count = 0
    /\ current_time = 0
    /\ temp_dir = None
    /\ yielded = <<>>
    /\ vcd_exists = FALSE
    /\ vcd_content = 0
    /\ last_vcd_content = 0
    /\ sim_tools = <<>>

\* tempfile.TemporaryDirectory(): the names a fresh directory may get
DirIds == 1..MaxDirs
workspace == <<workdir, live_dirs>>

\* A caller enters run_complete_flow with its arguments.
EnterFlow(name, req, ref) ==
    /\ pc = "idle"
    /\ pc' = "begin"
    /\ entry' = name
    /\ request' = req
    /\ stages' = req.stages.list
    /\ stages_ref' = IF req.stages.given THEN ref ELSE "none"
    /\ caller_stages' = IF ref = "caller" THEN req.stages ELSE NoStages
    /\ results' = EmptyDict
    /\ ret' = NoReturn
    /\ calls' = <<>>
    /\ tools' = <<>>
    /\ cancelled' = None
    /\ UNCHANGED <<flow_stages, workspace, other>>

call_run_complete_flow ==
    /\ pc = "idle"
    /\ \E code \in CodeInputs, top \in TopInputs, fam \in FamilyInputs,
       part \in PartInputs, cons \in ConstraintInputs, st \in StagesInputs,
       prog \in BOOLEAN :
        EnterFlow("run_complete_flow",
                  [verilog_code |-> code, top_module |-> top, device_family |-> fam,
                   device_part |-> part, constraints |-> cons, stages |-> st,
                   program_fpga |-> prog],
                  "caller")
    /\ UNCHANGED sim_vars

\* FPGAFlowService.run_synthesis_only: run_complete_flow with stages=['synthesis']
run_synthesis_only ==
    /\ pc = "idle"
    /\ \E code \in CodeInputs, top \in TopInputs, fam \in FamilyInputs,
       part \in PartInputs, cons \in ConstraintInputs :
        EnterFlow("run_synthesis_only",
                  [verilog_code |-> code, top_module |-> top, device_family |-> fam,
                   device_part |-> part, constraints |-> cons,
                   stages |-> [given |-> TRUE, list |-> <<"synthesis">>],
                   program_fpga |-> FALSE],
                  "literal")
    /\ UNCHANGED sim_vars

\* `stages = self.flow_stages.copy()`: a fresh list with the four stages
DefaultStages == [list |-> flow_stages, ref |-> "copy"]

\* mutant of AppendsProgramming: the programming flag is ignored
AppendsProgramming_ignored(list, flag) == FALSE

\* `if program_fpga and 'programming' not in stages: stages.append('programming')`
AppendsProgramming(list, flag) ==
    flag /\ "programming" \notin Range(list)

Return(success, output, res) ==
    /\ ret' = [success |-> success, output |-> output, results |-> res]
    /\ pc' = "done"

\* the `results` dict as first built
NewResults ==
    [stages_completed |-> <<>>,
     stages_failed    |-> <<>>,
     overall_success  |-> FALSE,
     device_family    |-> request.device_family,
     device_part      |-> request.device_part,
     top_module       |-> request.top_module,
     stage_results    |-> EmptyDict]

\* run_complete_flow up to its first stage: default stages, programming flag,
\* device validation, the empty results record
begin ==
    /\ pc = "begin"
    /\ LET bound == IF request.stages.given
                    THEN [list |-> stages, ref |-> stages_ref]
                    ELSE DefaultStages
           appended == AppendsProgramming(bound.list, request.program_fpga)
           list == IF appended THEN Append(bound.list, "programming") ELSE bound.list
       IN  /\ stages' = list
           /\ stages_ref' = bound.ref
           /\ caller_stages' = IF bound.ref = "caller"
                               THEN [given |-> TRUE, list |-> list]
                               ELSE caller_stages
           /\ flow_stages' = IF bound.ref = "self" THEN list ELSE flow_stages
    /\ IF ~_validate_device(request.device_family, request.device_part)
       THEN /\ Return(FALSE, <<"Unsupported device: ">>, EmptyDict)
            /\ UNCHANGED results
       ELSE /\ results' = NewResults
            /\ pc' = "synthesis"
            /\ UNCHANGED ret
    /\ UNCHANGED <<entry, request, calls, tools, workspace, cancelled, other>>
    /\ UNCHANGED sim_vars

\* mutant of AdapterCall: every adapter is handed the request's source text
AdapterCall_passes_source(adapter, input, data_format) ==
    [adapter |-> adapter, input |-> request.verilog_code,
     top_module |-> request.top_module,
     device_family |-> request.device_family, device_part |-> request.device_part,
     data_format |-> data_format]

AdapterCall(adapter, input, data_format) ==
    [adapter |-> adapter, input |-> input, top_module |-> request.top_module,
     device_family |-> request.device_family, device_part |-> request.device_part,
     data_format |-> data_format]

\* results['stage_results'][stage] = {'success': .., 'output': .., 'results': ..}
StoreStage(res, stage, out) ==
    [res EXCEPT !.stage_results =
        Put(@, stage, [success |-> out.success, output |-> out.output,
                       results |-> out.results])]

\* The adapter is called: `with tempfile.TemporaryDirectory() as temp_dir:`
\* gives it a fresh directory, and the orchestrator waits for its tuple.
StartCall(stage, input, data_format, running) ==
    /\ calls' = Append(calls, AdapterCall(stage, input, data_format))
    /\ \E d \in DirIds \ live_dirs :
            /\ workdir' = d
            /\ live_dirs' = live_dirs \cup {d}
    /\ pc' = running
    /\ UNCHANGED <<results, ret, tools>>

\* mutant of LeaveWorkspace: the directory is left behind
LeaveWorkspace_kept ==
    /\ workdir' = 0
    /\ UNCHANGED live_dirs

\* leaving the `with` block, on every way out of the adapter
LeaveWorkspace ==
    /\ workdir' = 0
    /\ live_dirs' = live_dirs \ {workdir}

\* the adapter call in progress
LastCall == calls[Len(calls)]

\* The adapter returns its tuple, which is stored under the stage.
Invoke(stage, out, next) ==
    /\ tools' = tools \o out.tools
    /\ results' = StoreStage(results, stage, out)
    /\ LeaveWorkspace
    /\ pc' = next
    /\ UNCHANGED <<ret, calls>>

\* `except Exception as e: return False, f"FPGA flow failed: ...", {}`: the
\* adapter call raised instead of returning its tuple
AdapterRaises ==
    /\ Return(FALSE, <<"FPGA flow failed: ">>, EmptyDict)
    /\ LeaveWorkspace
    /\ UNCHANGED <<results, calls, tools>>

\* a dependency of the stage is missing: return with the record as it stands
DependencyReturn(message) ==
    /\ Return(FALSE, <<message>>, results)
    /\ UNCHANGED <<results, calls, tools, workspace>>

Skip(next) ==
    /\ pc' = next
    /\ UNCHANGED <<results, ret, calls, tools, workspace>>

\* mutant of record_outcome: a failure is recorded but the run goes on
record_outcome_no_halt(stage, prefix, next) ==
    LET stage_result == results.stage_results[stage]
    IN  /\ results' = IF stage_result.success
                      THEN [results EXCEPT !.stages_completed = Append(@, stage)]
                      ELSE [results EXCEPT !.stages_failed = Append(@, stage)]
        /\ pc' = next
        /\ UNCHANGED <<ret, calls, tools, workspace>>

\* mutant of record_outcome: a failed stage is run again
record_outcome_retry(stage, prefix, next) ==
    LET stage_result == results.stage_results[stage]
    IN  /\ results' = IF stage_result.success
                      THEN [results EXCEPT !.stages_completed = Append(@, stage)]
                      ELSE [results EXCEPT !.stages_failed = Append(@, stage)]
        /\ pc' = IF stage_result.success THEN next ELSE stage
        /\ UNCHANGED <<ret, calls, tools, workspace>>

\* `if success: stages_completed.append(stage) else: stages_failed.append(stage); return`
\* mutant of record_outcome: a failed stage is returned without being listed
record_outcome_unlisted_failure(stage, prefix, next) ==
    LET stage_result == results.stage_results[stage]
    IN  /\ IF stage_result.success
           THEN /\ results' = [results EXCEPT !.stages_completed = Append(@, stage)]
                /\ pc' = next
                /\ UNCHANGED ret
           ELSE /\ UNCHANGED results
                /\ Return(FALSE, <<prefix, stage_result.output>>, results)
        /\ UNCHANGED <<calls, tools, workspace>>

record_outcome(stage, prefix, next) ==
    LET stage_result == results.stage_results[stage]
    IN  /\ IF stage_result.success
           THEN /\ results' = [results EXCEPT !.stages_completed = Append(@, stage)]
                /\ pc' = next
                /\ UNCHANGED ret
           ELSE /\ results' = [results EXCEPT !.stages_failed = Append(@, stage)]
                /\ Return(FALSE, <<prefix, stage_result.output>>, results')
        /\ UNCHANGED <<calls, tools, workspace>>

frame == <<entry, request, stages, stages_ref, caller_stages, flow_stages, cancelled, other>>

\* mutant of Requested: every stage block is entered, requested or not
Requested_always(stage, list) == TRUE

\* `if '<stage>' in stages:` at the head of each stage block
Requested(stage, list) == stage \in Range(list)

\* Stage 1: Synthesis
stage_synthesis ==
    /\ pc = "synthesis"
    /\ UNCHANGED frame
    /\ IF Requested("synthesis", stages)
       THEN StartCall("synthesis", request.verilog_code, None, "synthesis_running")
       ELSE Skip("implementation")
    /\ UNCHANGED sim_vars

\* synthesis_service.synthesize_design(...) comes back
synthesis_returns ==
    /\ pc = "synthesis_running"
    /\ UNCHANGED frame
    /\ \/ \E o \in ToolRuns(NetlistText, SynthStdouts) :
            Invoke("synthesis",
                   synthesize_design(request.verilog_code, request.top_module,
                                     request.device_family, request.device_part, o),
                   "synthesis_outcome")
       \/ AdapterRaises
    /\ UNCHANGED sim_vars

synthesis_outcome ==
    /\ pc = "synthesis_outcome"
    /\ UNCHANGED frame
    /\ record_outcome("synthesis", "Synthesis failed: ", "implementation")
    /\ UNCHANGED sim_vars

\* Stage 2: Implementation
stage_implementation ==
    /\ pc = "implementation"
    /\ UNCHANGED frame
    /\ IF Requested("implementation", stages)
       THEN IF ~Has(results.stage_results, "synthesis")
            THEN DependencyReturn("Implementation requires synthesis to be completed first")
            ELSE LET netlist_json ==
                         Get(results.stage_results["synthesis"].results, "netlist_json")
                 IN  IF Falsy(netlist_json)
                     THEN DependencyReturn("No netlist available from synthesis")
                     ELSE StartCall("implementation", netlist_json, None,
                                    "implementation_running")
       ELSE Skip("bitstream_generation")
    /\ UNCHANGED sim_vars

\* implementation_service.implement_design(...) comes back
implementation_returns ==
    /\ pc = "implementation_running"
    /\ UNCHANGED frame
    /\ \/ \E env \in Envs, prep \in PrepRuns,
             o \in ToolRuns(PlacementText(request.device_family), ImplStdouts) :
            Invoke("implementation",
                   implement_design(LastCall.input, request.top_module,
                                    request.device_family, request.device_part,
                                    request.constraints, env, prep, o),
                   "implementation_outcome")
       \/ AdapterRaises
    /\ UNCHANGED sim_vars

implementation_outcome ==
    /\ pc = "implementation_outcome"
    /\ UNCHANGED frame
    /\ record_outcome("implementation", "Implementation failed: ", "bitstream_generation")
    /\ UNCHANGED sim_vars

\* Stage 3: Bitstream Generation
stage_bitstream_generation ==
    /\ pc = "bitstream_generation"
    /\ UNCHANGED frame
    /\ IF Requested("bitstream_generation", stages)
       THEN IF ~Has(results.stage_results, "implementation")
            THEN DependencyReturn("Bitstream generation requires implementation to be completed first")
            ELSE LET impl_data ==
                         _get_implementation_data(
                             results.stage_results["implementation"].results,
                             request.device_family)
                     data_format == _get_data_format(request.device_family)
                 IN  IF Falsy(impl_data)
                     THEN DependencyReturn("No implementation data available")
                     ELSE StartCall("bitstream_generation", impl_data, data_format,
                                    "bitstream_generation_running")
       ELSE Skip("programming")
    /\ UNCHANGED sim_vars

\* bitstream_service.generate_bitstream(...) comes back
bitstream_generation_returns ==
    /\ pc = "bitstream_generation_running"
    /\ UNCHANGED frame
    /\ \/ \E env \in Envs, o \in ToolRuns(BitstreamBytes, {EmptyDict}) :
            Invoke("bitstream_generation",
                   generate_bitstream(LastCall.input, request.top_module,
                                      request.device_family, request.device_part,
                                      LastCall.data_format, env, o),
                   "bitstream_generation_outcome")
       \/ AdapterRaises
    /\ UNCHANGED sim_vars

bitstream_generation_outcome ==
    /\ pc = "bitstream_generation_outcome"
    /\ UNCHANGED frame
    /\ record_outcome("bitstream_generation", "Bitstream generation failed: ",
                      "programming")
    /\ UNCHANGED sim_vars

\* Stage 4: Programming
stage_programming ==
    /\ pc = "programming"
    /\ UNCHANGED frame
    /\ IF Requested("programming", stages)
       THEN IF ~Has(results.stage_results, "bitstream_generation")
            THEN DependencyReturn("Programming requires bitstream generation to be completed first")
            ELSE LET bitstream_data ==
                         Get(results.stage_results["bitstream_generation"].results,
                             "bitstream_file")
                 IN  IF Falsy(bitstream_data)
                     THEN DependencyReturn("No bitstream data available")
                     ELSE StartCall("programming", bitstream_data, None,
                                    "programming_running")
       ELSE Skip("finish")
    /\ UNCHANGED sim_vars

\* programming_service.program_fpga(...) comes back
programming_returns ==
    /\ pc = "programming_running"
    /\ UNCHANGED frame
    /\ \/ \E o \in ToolRuns(None, ProgStdouts) :
            Invoke("programming",
                   program_fpga(LastCall.input, request.device_family,
                                request.device_part, o),
                   "programming_outcome")
       \/ AdapterRaises
    /\ UNCHANGED sim_vars

programming_outcome ==
    /\ pc = "programming_outcome"
    /\ UNCHANGED frame
    /\ record_outcome("programming", "Programming failed: ", "finish")
    /\ UNCHANGED sim_vars

\* `results['overall_success'] = len(results['stages_failed']) == 0`, the
\* summary, and the final return
\* mutant of finish: rendering the summary drains the record's stages_completed
finish_summary_consumes ==
    /\ pc = "finish"
    /\ UNCHANGED frame
    /\ results' = [results EXCEPT !.overall_success = (Len(results.stages_failed) = 0),
                                  !.stages_completed = <<>>]
    /\ Return(results'.overall_success,
              _generate_flow_summary([results' EXCEPT !.stages_completed
                                                        = results.stages_completed]),
              results')
    /\ UNCHANGED <<calls, tools, workspace>>
    /\ UNCHANGED sim_vars

finish ==
    /\ pc = "finish"
    /\ UNCHANGED frame
    /\ results' = [results EXCEPT !.overall_success = (Len(results.stages_failed) = 0)]
    /\ Return(results'.overall_success, _generate_flow_summary(results'), results')
    /\ UNCHANGED <<calls, tools, workspace>>
    /\ UNCHANGED sim_vars

\* The record a single-stage entry point builds around its adapter's outcome.
SingleStageResults(stage, out) ==
    [stages_completed |-> IF out.success THEN <<stage>> ELSE <<>>,
     stages_failed    |-> IF out.success THEN <<>> ELSE <<stage>>,
     overall_success  |-> out.success,
     device_family    |-> request'.device_family,
     device_part      |-> request'.device_part,
     top_module       |-> request'.top_module,
     stage_results    |-> Put(EmptyDict, stage,
                              [success |-> out.success, output |-> out.output,
                               results |-> out.results])]

SingleStage(name, req, stage, input, data_format, out) ==
    /\ pc = "idle"
    /\ entry' = name
    /\ request' = req
    /\ stages' = <<>>
    /\ stages_ref' = "none"
    /\ caller_stages' = NoStages
    /\ calls' = << [adapter |-> stage, input |-> input, top_module |-> req.top_module,
                    device_family |-> req.device_family,
                    device_part |-> req.device_part, data_format |-> data_format] >>
    /\ tools' = out.tools
    /\ results' = SingleStageResults(stage, out)
    /\ Return(out.success, <<out.output>>, results')
    /\ cancelled' = None
    /\ UNCHANGED <<flow_stages, workspace, other>>

\* the `except` of a single-stage entry point: the adapter call raised
SingleStageRaises(name, req, stage, input, data_format, message) ==
    /\ pc = "idle"
    /\ entry' = name
    /\ request' = req
    /\ stages' = <<>>
    /\ stages_ref' = "none"
    /\ caller_stages' = NoStages
    /\ calls' = << [adapter |-> stage, input |-> input, top_module |-> req.top_module,
                    device_family |-> req.device_family,
                    device_part |-> req.device_part, data_format |-> data_format] >>
    /\ tools' = <<>>
    /\ results' = EmptyDict
    /\ Return(FALSE, <<message>>, EmptyDict)
    /\ cancelled' = None
    /\ UNCHANGED <<flow_stages, workspace, other>>

\* FPGAFlowService.run_implementation_only
run_implementation_only ==
    /\ pc = "idle"
    /\ \E netlist_json \in {NetlistText}, top \in TopInputs, fam \in FamilyInputs,
          part \in PartInputs, cons \in ConstraintInputs :
        LET req == [netlist_json |-> netlist_json, top_module |-> top,
                    device_family |-> fam, device_part |-> part,
                    constraints |-> cons]
        IN  \/ \E env \in Envs, prep \in PrepRuns,
                  o \in ToolRuns(IF fam \in Families THEN PlacementText(fam)
                                 ELSE FasmText, ImplStdouts) :
                    SingleStage("run_implementation_only", req,
                                "implementation", netlist_json, None,
                                implement_design(netlist_json, top, fam, part,
                                                 cons, env, prep, o))
            \/ SingleStageRaises("run_implementation_only", req, "implementation",
                                 netlist_json, None, "Implementation failed: ")
    /\ UNCHANGED sim_vars

DataFormatInputs == {"fasm", "asc", "config", "bin"}

\* FPGAFlowService.run_bitstream_only
run_bitstream_only ==
    /\ pc = "idle"
    /\ \E fam \in FamilyInputs, part \in PartInputs, top \in TopInputs,
          data_format \in DataFormatInputs :
        LET implementation_data ==
                IF fam \in Families THEN PlacementText(fam) ELSE FasmText
            req == [implementation_data |-> implementation_data,
                    top_module |-> top, device_family |-> fam,
                    device_part |-> part, data_format |-> data_format]
        IN  \/ \E env \in Envs, o \in ToolRuns(BitstreamBytes, {EmptyDict}) :
                    SingleStage("run_bitstream_only", req,
                                "bitstream_generation", implementation_data, data_format,
                                generate_bitstream(implementation_data, top, fam, part,
                                                   data_format, env, o))
            \/ SingleStageRaises("run_bitstream_only", req, "bitstream_generation",
                                 implementation_data, data_format,
                                 "Bitstream generation failed: ")
    /\ UNCHANGED sim_vars

\* The caller has its tuple; the service instance is ready for the next call.
next_call ==
    /\ pc = "done"
    /\ pc' = "idle"
    /\ entry' = "none"
    /\ request' = EmptyDict
    /\ stages' = <<>>
    /\ stages_ref' = "none"
    /\ caller_stages' = NoStages
    /\ results' = EmptyDict
    /\ ret' = NoReturn
    /\ calls' = <<>>
    /\ tools' = <<>>
    /\ cancelled' = None
    /\ UNCHANGED <<flow_stages, workspace, other>>
    /\ UNCHANGED sim_vars

RunningPcs ==
    {"synthesis_running", "implementation_running",
     "bitstream_generation_running", "programming_running"}

\* The caller gives the run up while a stage executes (the request is dropped
\* or its task cancelled).  run_complete_flow is a blocking call that takes no
\* cancellation token and polls nothing: the run itself is untouched.
cancel ==
    /\ pc \in RunningPcs
    /\ cancelled = None
    /\ cancelled' = LastCall.adapter
    /\ UNCHANGED <<pc, entry, request, stages, stages_ref, caller_stages,
                   flow_stages, results, ret, calls, tools, workspace, other>>
    /\ UNCHANGED sim_vars

Next ==
    \/ call_run_complete_flow
    \/ run_synthesis_only
    \/ begin
    \/ stage_synthesis
    \/ synthesis_returns
    \/ synthesis_outcome
    \/ stage_implementation
    \/ implementation_returns
    \/ implementation_outcome
    \/ stage_bitstream_generation
    \/ bitstream_generation_returns
    \/ bitstream_generation_outcome
    \/ stage_programming
    \/ programming_returns
    \/ programming_outcome
    \/ finish
    \/ run_implementation_only
    \/ run_bitstream_only
    \/ cancel
    \/ next_call

Spec == Init /\ [][Next]_vars

(***************************************************************************)
(* Two calls on the one module-level FPGAFlowService instance.  What a     *)
(* call keeps in its arguments and locals goes with the call; flow_stages  *)
(* and the file system are the instance's and the machine's.               *)
(***************************************************************************)
\* mutant of switch: the results record stays where it is, as it would if it
\* were kept on the instance
switch_shared_results ==
    /\ other' = CurrentFrame
    /\ pc' = other.pc
    /\ entry' = other.entry
    /\ request' = other.request
    /\ stages' = other.stages
    /\ stages_ref' = other.stages_ref
    /\ caller_stages' = other.caller_stages
    /\ ret' = other.ret
    /\ calls' = other.calls
    /\ tools' = other.tools
    /\ workdir' = other.workdir
    /\ cancelled' = other.cancelled
    /\ UNCHANGED <<results, flow_stages, live_dirs>>
    /\ UNCHANGED sim_vars

\* The running call is suspended and the other one runs on.
switch ==
    /\ other' = CurrentFrame
    /\ pc' = other.pc
    /\ entry' = other.entry
    /\ request' = other.request
    /\ stages' = other.stages
    /\ stages_ref' = other.stages_ref
    /\ caller_stages' = other.caller_stages
    /\ results' = other.results
    /\ ret' = other.ret
    /\ calls' = other.calls
    /\ tools' = other.tools
    /\ workdir' = other.workdir
    /\ cancelled' = other.cancelled
    /\ UNCHANGED <<flow_stages, live_dirs>>
    /\ UNCHANGED sim_vars

\* The requests of the two concurrent callers: the whole flow with programming,
\* or synthesis alone.
ConcurrentDevices == {<<"xilinx_7series", "xc7a35t">>, <<"lattice_ice40", "hx8k">>}
ConcurrentStages == {NoStages, [given |-> TRUE, list |-> <<"synthesis">>]}

concurrent_call ==
    /\ pc = "idle"
    /\ \E dev \in ConcurrentDevices, st \in ConcurrentStages :
        EnterFlow("run_complete_flow",
                  [verilog_code |-> "module top", top_module |-> "top",
                   device_family |-> dev[1], device_part |-> dev[2],
                   constraints |-> None, stages |-> st, program_fpga |-> ~st.given],
                  "caller")
    /\ UNCHANGED sim_vars

ConcurrentNext ==
    \/ concurrent_call
    \/ switch
    \/ begin
    \/ stage_synthesis
    \/ synthesis_returns
    \/ synthesis_outcome
    \/ stage_implementation
    \/ implementation_returns
    \/ implementation_outcome
    \/ stage_bitstream_generation
    \/ bitstream_generation_returns
    \/ bitstream_generation_outcome
    \/ stage_programming
    \/ programming_returns
    \/ programming_outcome
    \/ finish

ConcurrentSpec == Init /\ [][ConcurrentNext]_vars

\* The orchestrator's own statements: straight-line synchronous code, which
\* runs on once it is reached.
FlowStep ==
    \/ begin
    \/ stage_synthesis
    \/ synthesis_outcome
    \/ stage_implementation
    \/ implementation_outcome
    \/ stage_bitstream_generation
    \/ bitstream_generation_outcome
    \/ stage_programming
    \/ programming_outcome
    \/ finish

\* Every subprocess.run of the adapters is called without `timeout=`, so
\* nothing makes an adapter call come back: the *_returns steps get no fairness.
FairSpec == Spec /\ WF_vars(FlowStep)

(***************************************************************************)
(* VerilogSimulator.compile_and_simulate: an asynchronous generator that   *)
(* compiles with iverilog, then runs vvp chunk by chunk, yielding one      *)
(* result per chunk.  Every subprocess.run here has timeout=               *)
(* simulation_timeout, so each invocation comes back: with an exit code,   *)
(* with TimeoutExpired, or with another exception.                         *)
(***************************************************************************)
MaxChunks == 3
MaxVcd == 2
CHUNK_SIZE == 1000

\* lengths of the text a vvp run leaves in the VCD file
VcdLens == 0..MaxVcd

\* the file system of the generator's temporary directory and the local that
\* remembers what was sent
vcd == <<vcd_exists, vcd_content, last_vcd_content>>

\* Config.MAX_CHUNKS values the simulator is constructed with
MaxChunksInputs == 1..MaxChunks

\* what iverilog wrote on stderr when it exits nonzero
CompileStderrs == {"", "design.v:7: syntax error"}

\* VerilogSimulator.format_verilog_error: a `file:line: text` line becomes
\* three lines of context, any other line is kept as it is
format_verilog_error(error_msg) ==
    IF error_msg = "design.v:7: syntax error"
    THEN <<"", "Design Error at line 7:", "Error: syntax error", "Code: out = ~out">>
    ELSE <<error_msg>>

\* The outcomes of one compile: exit 0, exit nonzero, TimeoutExpired, another
\* exception.
CompileOutcomes == {"ok", "nonzero", "timeout", "fault"}

\* The outcomes of one vvp chunk: exit 0 with the VCD file present, exit 0
\* without it, exit nonzero, TimeoutExpired, another exception.  Nothing
\* removes the VCD file between chunks, so once a chunk has written it the
\* file is present after every later chunk.
ChunkOutcomes == {"more", "complete", "nonzero", "timeout", "fault"}

\* a result without the 'waveform_data' key has waveform_data <<>>; with the
\* key it holds the length of the text
Failure(error) ==
    [success |-> FALSE, error |-> error, is_complete |-> TRUE, time_range |-> <<>>,
     waveform_data |-> <<>>]

ChunkResult(is_complete, time_range, waveform_data) ==
    [success |-> TRUE, error |-> <<>>, is_complete |-> is_complete,
     time_range |-> time_range, waveform_data |-> waveform_data]

\* vcd_content[len(last_vcd_content):]
new_vcd_content(content, last) == IF content > last THEN content - last ELSE 0

SimRan(tool, outcome) == [tool |-> tool, outcome |-> outcome]

\* `finally`: shutil.rmtree(temp_dir), whose failure is logged and swallowed
cleanup == \E removed \in BOOLEAN : temp_dir' = IF removed THEN "removed" ELSE "exists"

\* the generator is started: lines 61-81, up to the compile command
compile_and_simulate ==
    /\ sim_pc = "idle"
    /\ \E m \in MaxChunksInputs : max_chunks' = m
    /\ chunk_count' = 0
    /\ current_time' = 0
    /\ sim_tools' = <<>>
    /\ vcd_exists' = FALSE
    /\ vcd_content' = 0
    /\ last_vcd_content' = 0
    /\ \/ /\ temp_dir' = "exists"
          /\ yielded' = <<>>
          /\ sim_pc' = "compile"
       \/ \* mkdtemp or writing the files raises: the outer `except`
          /\ temp_dir' = None
          /\ yielded' = <<Failure(<<"Error: ">>)>>
          /\ sim_pc' = "sim_done"
    /\ UNCHANGED flow_vars

\* mutant of compile: a failed compilation yields its result and goes on to
\* the simulation loop
compile_falls_through ==
    /\ sim_pc = "compile"
    /\ \E c \in CompileOutcomes, stderr \in CompileStderrs :
        /\ sim_tools' = Append(sim_tools, SimRan("iverilog", c))
        /\ yielded' = IF c = "ok" THEN yielded
                      ELSE Append(yielded, Failure(format_verilog_error(stderr)))
        /\ sim_pc' = "sim_loop"
        /\ UNCHANGED temp_dir
    /\ UNCHANGED <<max_chunks, chunk_count, current_time, vcd>>
    /\ UNCHANGED flow_vars

\* lines 83-123: the compilation; each failure yields one result and returns
compile ==
    /\ sim_pc = "compile"
    /\ \E c \in CompileOutcomes, stderr \in CompileStderrs :
        /\ sim_tools' = Append(sim_tools, SimRan("iverilog", c))
        /\ IF c = "ok"
           THEN /\ sim_pc' = "sim_loop"
                /\ UNCHANGED <<yielded, temp_dir>>
           ELSE /\ yielded' = Append(yielded,
                    Failure(CASE c = "nonzero" -> format_verilog_error(stderr)
                              [] c = "timeout" -> <<"Compilation timed out. The operation took too long to complete.">>
                              [] c = "fault" -> <<"Compilation error: ">>))
                /\ cleanup
                /\ sim_pc' = "sim_done"
    /\ UNCHANGED <<max_chunks, chunk_count, current_time, vcd>>
    /\ UNCHANGED flow_vars

\* lines 130-212: one turn of `while chunk_count < self.max_chunks`
simulation_chunk ==
    /\ sim_pc = "sim_loop"
    /\ chunk_count < max_chunks
    /\ chunk_count' = chunk_count + 1
    /\ \E c \in ChunkOutcomes :
        /\ sim_tools' = Append(sim_tools, SimRan("vvp", c))
        /\ CASE c = "more" ->
                \E n \in VcdLens :
                    /\ vcd_exists' = TRUE
                    /\ vcd_content' = n
                    /\ last_vcd_content' = n
                    /\ yielded' = Append(yielded,
                            ChunkResult(FALSE, <<current_time, current_time + CHUNK_SIZE>>,
                                        <<new_vcd_content(n, last_vcd_content)>>))
                    /\ current_time' = current_time + CHUNK_SIZE
                    /\ sim_pc' = "sim_loop"
                    /\ UNCHANGED temp_dir
             [] c = "complete" ->
                /\ ~vcd_exists
                /\ yielded' = Append(yielded, ChunkResult(TRUE, <<>>, <<>>))
                /\ sim_pc' = "after_loop"
                /\ UNCHANGED <<current_time, temp_dir, vcd>>
             [] c = "nonzero" ->
                /\ yielded' = Append(yielded, Failure(format_verilog_error("")))
                /\ cleanup
                /\ sim_pc' = "sim_done"
                /\ UNCHANGED <<current_time, vcd>>
             [] c = "timeout" ->
                /\ yielded' = Append(yielded,
                        Failure(<<"Simulation timed out. The operation took too long to complete.">>))
                /\ sim_pc' = "after_loop"
                /\ UNCHANGED <<current_time, temp_dir, vcd>>
             [] c = "fault" ->
                /\ yielded' = Append(yielded, Failure(<<"Simulation error: ">>))
                /\ sim_pc' = "after_loop"
                /\ UNCHANGED <<current_time, temp_dir, vcd>>
    /\ UNCHANGED max_chunks
    /\ UNCHANGED flow_vars

\* the `while` test fails
loop_ends ==
    /\ sim_pc = "sim_loop"
    /\ ~(chunk_count < max_chunks)
    /\ sim_pc' = "after_loop"
    /\ UNCHANGED <<max_chunks, chunk_count, current_time, temp_dir, yielded, sim_tools, vcd>>
    /\ UNCHANGED flow_vars

\* lines 214-220 and the `finally`
after_loop ==
    /\ sim_pc = "after_loop"
    /\ yielded' = IF chunk_count >= max_chunks
                  THEN Append(yielded,
                          Failure(<<"Simulation exceeded maximum time limit",
                                    max_chunks * CHUNK_SIZE>>))
                  ELSE yielded
    /\ cleanup
    /\ sim_pc' = "sim_done"
    /\ UNCHANGED <<max_chunks, chunk_count, current_time, sim_tools, vcd>>
    /\ UNCHANGED flow_vars

\* the generator is exhausted; the simulator takes its next call
next_simulation ==
    /\ sim_pc = "sim_done"
    /\ sim_pc' = "idle"
    /\ chunk_count' = 0
    /\ current_time' = 0
    /\ temp_dir' = None
    /\ yielded' = <<>>
    /\ sim_tools' = <<>>
    /\ vcd_exists' = FALSE
    /\ vcd_content' = 0
    /\ last_vcd_content' = 0
    /\ UNCHANGED max_chunks
    /\ UNCHANGED flow_vars

SimNext ==
    \/ compile_and_simulate
    \/ compile
    \/ simulation_chunk
    \/ loop_ends
    \/ after_loop
    \/ next_simulation

SimSpec == Init /\ [][SimNext]_vars



(***************************************************************************)
(* Properties.                                                             *)
(***************************************************************************)
InFlow == entry \in {"run_complete_flow", "run_synthesis_only"}
Returned == pc = "done"
Pos(stage) == CHOOSE i \in DOMAIN FlowStages : FlowStages[i] = stage
OutcomePc(stage) ==
    CASE stage = "synthesis" -> "synthesis_outcome"
      [] stage = "implementation" -> "implementation_outcome"
      [] stage = "bitstream_generation" -> "bitstream_generation_outcome"
      [] stage = "programming" -> "programming_outcome"
Invoked(stage) == \E i \in DOMAIN calls : calls[i].adapter = stage
\* the stages list as the caller passed it (the default when it passed none)
ArgList == IF request.stages.given THEN request.stages.list ELSE FlowStages
\* the requested stages that come before `stage`, in flow order
RequestedBefore(stage) ==
    SelectSeq(FlowStages, LAMBDA t : t \in Range(stages) /\ Pos(t) < Pos(stage))
\* the device is listed in every one of the four tables
SupportedByAll(f, p) ==
    \A T \in {SynthesisDevices, ImplementationDevices, BitstreamDevices,
              ProgrammingDevices} : f \in DOMAIN T /\ p \in T[f]
\* stages_completed as a client reads it: results.get('stages_completed', [])
ReportedCompleted(res) ==
    IF Has(res, "stages_completed") THEN res.stages_completed ELSE <<>>
RecordedFailure(stage) ==
    /\ Has(results, "stage_results")
    /\ Has(results.stage_results, stage)
    /\ ~results.stage_results[stage].success

\* C1: when the adapter of a requested stage reports failure, the run goes
\* straight to its return: the stage is the only entry of stages_failed, no
\* adapter of a later stage is invoked, stages_completed is exactly the
\* requested stages before it, and the call returns failure with that record.
C1_FailureHalts ==
    InFlow =>
        \A stage \in StageNames :
            RecordedFailure(stage) =>
                /\ pc \in {OutcomePc(stage), "done"}
                /\ calls[Len(calls)].adapter = stage
                /\ \A i \in DOMAIN calls : Pos(calls[i].adapter) <= Pos(stage)
                /\ Returned =>
                    /\ ~ret.success
                    /\ results.stages_failed = <<stage>>
                    /\ results.stages_completed = RequestedBefore(stage)
                    /\ ret.results = results

\* a 4-stage run whose stage 2 failed has returned
C1_Witness ==
    /\ InFlow /\ Returned
    /\ stages = FlowStages
    /\ RecordedFailure("implementation")
    /\ results.stages_completed = <<"synthesis">>
    /\ results.stages_failed = <<"implementation">>
    /\ ~Invoked("bitstream_generation") /\ ~Invoked("programming")

\* C2: whatever the order and the duplicates of the `stages` argument, the
\* adapters are invoked in strictly increasing flow order, so each at most once.
C2_FixedOrderOnce ==
    \A i, j \in DOMAIN calls :
        i < j => Pos(calls[i].adapter) < Pos(calls[j].adapter)

\* a request listing implementation before synthesis, synthesis twice, has run both
C2_Witness ==
    /\ entry = "run_complete_flow"
    /\ request.stages.given
    /\ request.stages.list = <<"implementation", "synthesis", "synthesis">>
    /\ Len(calls) = 2
    /\ calls[1].adapter = "synthesis" /\ calls[2].adapter = "implementation"

\* C3 (as claimed): a device missing from any of the four tables is rejected
\* before the first stage, for every requested subset: once past the check the
\* run has returned failure with the unsupported-device message, no adapter and
\* no tool was invoked, and the returned record has an empty stages_completed.
C3_UnsupportedDeviceRejected ==
    (/\ InFlow
     /\ pc \notin {"idle", "begin"}
     /\ ~SupportedByAll(request.device_family, request.device_part)) =>
        /\ Returned
        /\ calls = <<>>
        /\ tools = <<>>
        /\ ~ret.success
        /\ ret.output = <<"Unsupported device: ">>
        /\ Has(ret.results, "stages_completed")
        /\ ret.results.stages_completed = <<>>

\* C4 (as claimed): implementation requested without synthesis ends with
\* stages_failed == ["implementation"], stages_completed == [], and the
\* implementation adapter not invoked.
C4_DependencyErrorRecorded ==
    (/\ InFlow /\ Returned
     /\ SupportedByAll(request.device_family, request.device_part)
     /\ "implementation" \in Range(stages)
     /\ "synthesis" \notin Range(stages)) =>
        /\ ~ret.success
        /\ ~Invoked("implementation")
        /\ ret.results.stages_completed = <<>>
        /\ ret.results.stages_failed = <<"implementation">>

\* C5: with the programming flag set and 'programming' not passed, the effective
\* list is the passed list with 'programming' appended once; programming is
\* reached only when every other requested stage has completed; and with
\* stages = ["synthesis"] and a synthesis that succeeds, the run ends failed at
\* programming with the dependency message and never starts the programming tool.
C5_ProgrammingAppended ==
    (/\ InFlow
     /\ pc \notin {"idle", "begin"}
     /\ request.program_fpga
     /\ "programming" \notin Range(ArgList)) =>
        /\ stages = Append(ArgList, "programming")
        /\ pc \in {"programming", "programming_outcome"} =>
              \A t \in Range(stages) \ {"programming"} :
                  t \in Range(results.stages_completed)
        /\ (/\ ArgList = <<"synthesis">>
            /\ Returned
            /\ Has(results, "stage_results")
            /\ Has(results.stage_results, "synthesis")
            /\ results.stage_results["synthesis"].success) =>
              /\ stages = <<"synthesis", "programming">>
              /\ results.stages_completed = <<"synthesis">>
              /\ ~Invoked("programming")
              /\ \A i \in DOMAIN tools : tools[i].tool # "openFPGALoader"
              /\ ~ret.success
              /\ ret.output =
                    <<"Programming requires bitstream generation to be completed first">>

C5_Witness ==
    /\ entry = "run_complete_flow" /\ Returned
    /\ request.program_fpga
    /\ request.stages.given /\ request.stages.list = <<"synthesis">>
    /\ stages = <<"synthesis", "programming">>
    /\ Has(results, "stages_completed")
    /\ results.stages_completed = <<"synthesis">>
    /\ ~ret.success


\* the stage whose output a stage consumes, and the key it is read from
Predecessor(stage) ==
    CASE stage = "implementation" -> "synthesis"
      [] stage = "bitstream_generation" -> "implementation"
      [] stage = "programming" -> "bitstream_generation"
ArtifactKey(stage) ==
    CASE stage = "implementation" -> "netlist_json"
      [] stage = "bitstream_generation" ->
            (CASE request.device_family = "xilinx_7series" -> "fasm_file"
               [] request.device_family = "lattice_ice40" -> "asc_file"
               [] request.device_family = "lattice_ecp5" -> "config_file")
      [] stage = "programming" -> "bitstream_file"
DependentStages == {"implementation", "bitstream_generation", "programming"}
DependencyMessages(stage) ==
    CASE stage = "implementation" ->
            {<<"Implementation requires synthesis to be completed first">>,
             <<"No netlist available from synthesis">>}
      [] stage = "bitstream_generation" ->
            {<<"Bitstream generation requires implementation to be completed first">>,
             <<"No implementation data available">>}
      [] stage = "programming" ->
            {<<"Programming requires bitstream generation to be completed first">>,
             <<"No bitstream data available">>}
\* the predecessor ran in this run and its recorded outcome holds a non-empty
\* artifact of the kind `stage` needs
InputAvailable(stage) ==
    /\ Invoked(Predecessor(stage))
    /\ Has(results.stage_results, Predecessor(stage))
    /\ Has(results.stage_results[Predecessor(stage)].results, ArtifactKey(stage))
    /\ results.stage_results[Predecessor(stage)].results[ArtifactKey(stage)]
            \notin {None, ""}

\* C6: in a run of run_complete_flow a dependent stage's adapter is invoked only
\* with the non-empty artifact its predecessor recorded in this run; a run that
\* reaches a requested stage whose input is missing returns a dependency error
\* for that stage without invoking its adapter.
C6_NoStageWithoutInput ==
    InFlow =>
        /\ \A i \in DOMAIN calls :
              calls[i].adapter \in DependentStages =>
                  /\ InputAvailable(calls[i].adapter)
                  /\ calls[i].input =
                        results.stage_results[Predecessor(calls[i].adapter)]
                            .results[ArtifactKey(calls[i].adapter)]
        /\ \A stage \in DependentStages :
              (/\ Returned
               /\ Has(ret.results, "stage_results")
               /\ stage \in Range(stages)
               /\ ret.results.stages_completed = RequestedBefore(stage)
               /\ ~InputAvailable(stage)) =>
                  /\ ~Invoked(stage)
                  /\ ~ret.success
                  /\ ret.output \in DependencyMessages(stage)

\* synthesis exited 0 without leaving a netlist; implementation was not invoked
C6_Witness ==
    /\ entry = "run_complete_flow" /\ Returned
    /\ stages = FlowStages
    /\ Has(results, "stage_results")
    /\ Has(results.stage_results, "synthesis")
    /\ results.stage_results["synthesis"].success
    /\ results.stage_results["synthesis"].results["netlist_json"] = None
    /\ ret.output = <<"No netlist available from synthesis">>
    /\ ~Invoked("implementation")

\* C7 (as claimed): every return of run_complete_flow with success False carries
\* a record that lists the completed stages, names exactly one failed stage and
\* holds that stage's diagnostic text.
C7_FailureAlwaysStructured ==
    (InFlow /\ Returned /\ ~ret.success) =>
        /\ Has(ret.results, "stages_completed")
        /\ Has(ret.results, "stages_failed")
        /\ Len(ret.results.stages_failed) = 1
        /\ Has(ret.results.stage_results, ret.results.stages_failed[1])

\* C8 (as claimed): in every returned record overall_success is true exactly
\* when stages_failed is empty, and the returned success flag equals it.
C8_OverallSuccessIffNoFailure ==
    (Returned /\ DOMAIN ret.results # {}) =>
        /\ ret.results.overall_success <=> (ret.results.stages_failed = <<>>)
        /\ ret.success <=> ret.results.overall_success

\* C9: at every point of every run stages_failed holds at most one stage, no
\* stage is in both lists, and no stage is twice in either list.
NoDuplicates(q) == \A i, j \in DOMAIN q : q[i] = q[j] => i = j
C9_AtMostOneFailure ==
    Has(results, "stages_failed") =>
        /\ Len(results.stages_failed) <= 1
        /\ Range(results.stages_completed) \cap Range(results.stages_failed) = {}
        /\ NoDuplicates(results.stages_completed)
        /\ NoDuplicates(results.stages_failed)

\* three stages completed and the fourth failed
C9_Witness ==
    /\ Has(results, "stages_failed")
    /\ Len(results.stages_completed) = 3
    /\ results.stages_failed = <<"programming">>

\* C10: only ["synthesis"] on a supported device, with a Yosys run that exits 0
\* and writes its netlist: stages_completed == ["synthesis"], stages_failed ==
\* [], overall success, the netlist under netlist_json of the synthesis outcome,
\* and no other adapter invoked.
SynthesisOnlyRequest ==
    /\ InFlow
    /\ ArgList = <<"synthesis">>
    /\ ~request.program_fpga
    /\ SupportedByAll(request.device_family, request.device_part)
C11_UnrequestedSkipped ==
    (InFlow /\ pc \notin {"idle", "begin"}) =>
        \A stage \in StageNames \ Range(stages) :
            /\ ~Invoked(stage)
            /\ \A rec \in {results, ret.results} :
                    Has(rec, "stage_results") =>
                        /\ stage \notin Range(rec.stages_completed)
                        /\ stage \notin Range(rec.stages_failed)
                        /\ ~Has(rec.stage_results, stage)

\* bitstream generation and programming left out of a list given out of
\* order: the two requested stages completed and only their adapters ran
C11_Witness ==
    /\ entry = "run_complete_flow" /\ Returned
    /\ stages = <<"implementation", "synthesis">>
    /\ ret.success
    /\ ret.results.stages_completed = <<"synthesis", "implementation">>
    /\ Len(calls) = 2
    /\ ~Invoked("bitstream_generation") /\ ~Invoked("programming")

\* C12 (as claimed): a complete-flow request with program_fpga False that does
\* not list 'programming' in stages, or leaves stages unset, never invokes the
\* programming adapter.
C12_NoProgrammingUnlessAsked ==
    (/\ entry = "run_complete_flow"
     /\ ~request.program_fpga
     /\ (request.stages.given => "programming" \notin Range(request.stages.list))) =>
        ~Invoked("programming")

\* C13 (as claimed): at every entry point a device that is not in the
\* capability tables is rejected before any external tool runs: the call has
\* returned failure and started no tool.
C13_EveryEntryValidates ==
    (/\ entry # "none"
     /\ pc \notin {"idle", "begin"}
     /\ ~SupportedByAll(request.device_family, request.device_part)) =>
        /\ Returned
        /\ ~ret.success
        /\ \A i \in DOMAIN tools : ~tools[i].started

\* What run_complete_flow returns for a run whose only adapter call is the one
\* of `stage`: the device check first, then the adapter's tuple stored and
\* recorded, or the `except` return when the call raised.
NoRecord == [present |-> FALSE, success |-> FALSE]
OrchestratorOneStage(device_family, device_part, stage, raised, out) ==
    IF ~_validate_device(device_family, device_part) THEN NoRecord
    ELSE IF raised THEN NoRecord
    ELSE [present          |-> TRUE,
          success          |-> out.success,
          stages_completed |-> IF out.success THEN <<stage>> ELSE <<>>,
          stages_failed    |-> IF out.success THEN <<>> ELSE <<stage>>,
          overall_success  |-> out.success,
          outcome          |-> out]

\* the same fields of a returned tuple
ReturnedView(r, stage) ==
    IF ~Has(r.results, "stage_results") THEN [present |-> FALSE, success |-> r.success]
    ELSE [present          |-> TRUE,
          success          |-> r.success,
          stages_completed |-> r.results.stages_completed,
          stages_failed    |-> r.results.stages_failed,
          overall_success  |-> r.results.overall_success,
          outcome          |-> r.results.stage_results[stage]]

PartialEntry == entry \in {"run_implementation_only", "run_bitstream_only"}

\* C14 (as claimed): run_implementation_only and run_bitstream_only return the
\* success flag, stages_completed, stages_failed, overall_success and per-stage
\* outcome that run_complete_flow's handling of that one stage gives for the
\* same request and the same adapter outcome, a validation failure and a
\* raised fault included.
C14_PartialRunsAsOrchestrator ==
    (PartialEntry /\ Returned) =>
        LET stage == calls[1].adapter
            raised == ~Has(results, "stage_results")
            out == IF raised THEN NoRecord ELSE results.stage_results[stage]
        IN  ReturnedView(ret, stage) =
                OrchestratorOneStage(request.device_family, request.device_part,
                                     stage, raised, out)

\* the (family, part) pairs a table lists
ListedPairs(table) == UNION {{<<f, p>> : p \in table[f]} : f \in DOMAIN table}
\* every part some table lists, and the parts a caller may name
AllParts == PartInputs \cup UNION {SynthesisDevices[f] : f \in Families}
\* the run was turned away by the device check: returned before any adapter
\* call, with the empty record
Rejected ==
    /\ Returned /\ ~ret.success
    /\ calls = <<>>
    /\ ~Has(ret.results, "stage_results")

\* C15: validate_device is true for exactly the listed (family, part) pairs:
\* false for an unknown family, an unknown part, and a listed part named with
\* another family; and a run past the device check was turned away exactly
\* when its pair is not listed.
C15_ValidateDeviceExact ==
    /\ \A f \in FamilyInputs, p \in AllParts :
            validate_device(SynthesisDevices, f, p)
                <=> <<f, p>> \in ListedPairs(SynthesisDevices)
    /\ \A p \in AllParts : ~validate_device(SynthesisDevices, "spartan6", p)
    /\ \A f \in Families :
            \A g \in Families \ {f} :
                \A p \in SynthesisDevices[g] : ~validate_device(SynthesisDevices, f, p)
    /\ (InFlow /\ pc \notin {"idle", "begin"}) =>
            (Rejected <=> <<request.device_family, request.device_part>>
                              \notin ListedPairs(SynthesisDevices))

\* a listed part named with the wrong family was turned away
C15_Witness ==
    /\ InFlow /\ Rejected
    /\ request.device_family = "lattice_ecp5" /\ request.device_part = "hx8k"
    /\ "hx8k" \in SynthesisDevices["lattice_ice40"]

ServiceTables ==
    {SynthesisDevices, ImplementationDevices, BitstreamDevices, ProgrammingDevices}

\* C16: the four services give the same answer for every (family, part), so
\* the orchestrator's combined check equals the check of any one of them; the
\* tables are fixed at construction, so this holds in every state of every
\* sequence of runs.
C16_SameDeviceSet ==
    /\ \A f \in FamilyInputs, p \in AllParts :
            /\ \A S \in ServiceTables, T \in ServiceTables :
                    validate_device(S, f, p) <=> validate_device(T, f, p)
            /\ \A T \in ServiceTables :
                    _validate_device(f, p) <=> validate_device(T, f, p)
    /\ (InFlow /\ pc \notin {"idle", "begin"}) =>
            \A T \in ServiceTables :
                Rejected <=> ~validate_device(T, request.device_family,
                                              request.device_part)

\* a run in which all four services worked on the same ECP5 part
C16_Witness ==
    /\ entry = "run_complete_flow" /\ Returned /\ ret.success
    /\ request.device_family = "lattice_ecp5" /\ request.device_part = "lfe5u-25f"
    /\ ret.results.stages_completed = FlowStages
    /\ Len(calls) = 4

PlacementFormats == {"fasm", "asc", "config"}

\* C17: over the three families _get_data_format returns one of fasm, asc,
\* config, no two families share a format and every format belongs to a
\* family; the format handed to the bitstream adapter by a run is one of the
\* three.
C17_FormatBijection ==
    /\ \A f \in Families : _get_data_format(f) \in PlacementFormats
    /\ \A f \in Families, g \in Families :
            _get_data_format(f) = _get_data_format(g) => f = g
    /\ \A fmt \in PlacementFormats : \E f \in Families : _get_data_format(f) = fmt
    /\ InFlow =>
            \A i \in DOMAIN calls :
                calls[i].adapter = "bitstream_generation" =>
                    /\ calls[i].data_format \in PlacementFormats
                    /\ \A f \in Families \ {calls[i].device_family} :
                            _get_data_format(f) # calls[i].data_format

\* a run handed the iCE40 placement to the bitstream adapter as asc
C17_Witness ==
    /\ entry = "run_complete_flow"
    /\ \E i \in DOMAIN calls :
            /\ calls[i].adapter = "bitstream_generation"
            /\ calls[i].device_family = "lattice_ice40"
            /\ calls[i].data_format = "asc"
            /\ calls[i].input = AscText

\* the outcome "the call raised": no return value of the two policies is it
Raised == "<raised>"
UnmappedFamilies == FamilyInputs \ Families

\* C18 (as claimed): for a family outside the closed set the placement-format
\* policy raises: _get_data_format returns no default format and
\* _get_implementation_data no empty artifact; and no run hands the bitstream
\* adapter a defaulted format.
C18_PolicyFailsFast ==
    /\ \A f \in UnmappedFamilies :
            /\ _get_data_format(f) = Raised
            /\ _get_implementation_data([fasm_file |-> FasmText], f) = Raised
    /\ InFlow =>
            \A i \in DOMAIN calls :
                calls[i].adapter = "bitstream_generation" =>
                    calls[i].data_format # "unknown"

\* the tools that pack a placement into a bitstream
Packers == {"fasm", "icepack", "ecppack"}

\* C19: a bitstream-generation call whose declared format is not the one
\* _get_data_format gives for the requested family never runs a packer, its
\* stage outcome is a failure, and the call returns failure.
C19_FormatMismatchRejected ==
    \A i \in DOMAIN calls :
        (/\ calls[i].adapter = "bitstream_generation"
         /\ calls[i].data_format # _get_data_format(calls[i].device_family)) =>
            /\ \A j \in DOMAIN tools : tools[j].tool \notin Packers
            /\ Has(results, "stage_results") =>
                    ~results.stage_results["bitstream_generation"].success
            /\ Returned => ~ret.success

\* run_bitstream_only with its default format 'fasm' for an iCE40 part
C19_Witness ==
    /\ entry = "run_bitstream_only" /\ Returned
    /\ request.device_family = "lattice_ice40" /\ request.device_part = "hx8k"
    /\ request.data_format = "fasm"
    /\ ~ret.success
    /\ ret.results.stages_failed = <<"bitstream_generation">>
    /\ tools = <<>>

\* the adapter call of `stage` raised: the call was made and left no outcome
AdapterRaised(stage) == Invoked(stage) /\ ~Has(results.stage_results, stage)
\* a tool of the run could not be started
ToolNotStarted == \E j \in DOMAIN tools : ~tools[j].started
LastStage == calls[Len(calls)].adapter
StructuredFailure(stage) ==
    /\ ~ret.success
    /\ ret.output # <<>>
    /\ Has(ret.results, "stages_failed")
    /\ ret.results.stages_failed = <<stage>>
    /\ ret.results.stages_completed = RequestedBefore(stage)

\* C20 (as claimed): when a stage's tool cannot be started or its adapter
\* raises, run_complete_flow returns success False with that stage in
\* stages_failed, the earlier completed stages in stages_completed, and a
\* diagnostic text.
C20_FaultsStructured ==
    (InFlow /\ Returned /\ calls # <<>>) =>
        ((AdapterRaised(LastStage) \/ ToolNotStarted) => StructuredFailure(LastStage))

\* C21 (as claimed): every run that was started eventually returns, because
\* each tool invocation is bounded by a timeout.
C21_EveryRunReturns == (pc = "begin") ~> Returned

\* C22 (as claimed): once the caller has cancelled a run while a stage was
\* executing, that stage is aborted: it is never recorded as completed, no
\* later stage's adapter is invoked, and the run returns failure with the
\* interrupted stage as its failed stage.
C22_CancelAborts ==
    (InFlow /\ cancelled # None) =>
        /\ cancelled \notin Range(results.stages_completed)
        /\ \A i \in DOMAIN calls : Pos(calls[i].adapter) <= Pos(cancelled)
        /\ Returned =>
            /\ ~ret.success
            /\ Has(ret.results, "stages_failed")
            /\ ret.results.stages_failed = <<cancelled>>

\* the two calls on the instance
Frames == {CurrentFrame, other}

\* C23: a call holds a temporary directory exactly while it is inside a stage
\* adapter; once the adapter has come back (with its tuple or by raising) the
\* directory is gone; no directory exists that is not the one of an adapter
\* call in progress; and two calls inside adapters hold different directories.
C23_WorkspaceScoped ==
    /\ \A f \in Frames :
            /\ f.workdir # 0 <=> f.pc \in RunningPcs
            /\ f.workdir # 0 => f.workdir \in live_dirs
    /\ live_dirs = {f.workdir : f \in Frames} \ {0}
    /\ (workdir # 0 /\ other.workdir # 0) => workdir # other.workdir

\* one call's adapter raised and its directory is gone, while the other call
\* is inside an adapter with the only directory that exists
C23_Witness ==
    /\ Returned /\ calls # <<>> /\ ~Has(ret.results, "stage_results")
    /\ workdir = 0
    /\ other.pc \in RunningPcs
    /\ live_dirs = {other.workdir}

\* the stages of a record's stage_results, in flow order, by their success
StagesWith(stage_results, success) ==
    SelectSeq(FlowStages,
              LAMBDA t : Has(stage_results, t) /\ stage_results[t].success = success)

\* What a call's state must be when nothing but its own request and its own
\* adapter outcomes went into it.
OwnResultOnly(f) ==
    /\ \A i \in DOMAIN f.calls :
            /\ f.calls[i].device_family = Get(f.request, "device_family")
            /\ f.calls[i].device_part = Get(f.request, "device_part")
    /\ Has(f.results, "stage_results") =>
            /\ f.results.device_family = Get(f.request, "device_family")
            /\ f.results.device_part = Get(f.request, "device_part")
            /\ \A t \in DOMAIN f.results.stage_results :
                    /\ \E i \in DOMAIN f.calls : f.calls[i].adapter = t
                    /\ Has(f.results.stage_results[t].results, "device_part") =>
                            f.results.stage_results[t].results["device_part"]
                                = Get(f.request, "device_part")
    /\ (f.pc = "done" /\ Has(f.ret.results, "stage_results")) =>
            /\ f.ret.results = f.results
            /\ f.ret.results.stages_completed
                    = StagesWith(f.results.stage_results, TRUE)
            /\ f.ret.results.stages_failed
                    = StagesWith(f.results.stage_results, FALSE)
            /\ f.ret.success = (f.ret.results.stages_failed = <<>>
                                 /\ f.ret.results.overall_success)

\* C24: however two run_complete_flow calls on the shared instance interleave,
\* each call's record and return are made of its own request and its own
\* adapter outcomes only, as when it runs alone, and flow_stages keeps the four
\* stages it was constructed with.
C24_CallsIndependent ==
    /\ flow_stages = FlowStages
    /\ \A f \in Frames : OwnResultOnly(f)

\* both calls have returned, for different devices, each with its own record
C24_Witness ==
    /\ Returned /\ other.pc = "done"
    /\ request.device_family = "xilinx_7series"
    /\ other.request.device_family = "lattice_ice40"
    /\ ret.success /\ ret.results.device_part = "xc7a35t"
    /\ Len(ret.results.stages_completed) = 4
    /\ ~other.ret.success
    /\ Has(other.ret.results, "stages_failed")
    /\ other.ret.results.stages_failed # <<>>
    /\ other.ret.results.device_part = "hx8k"

\* C25: run_complete_flow never mutates its request: once the call has
\* returned, the caller's `stages` list holds exactly the elements it was
\* passed with, also when program_fpga is set and 'programming' was not listed.
C25_RequestNotMutated ==
    (entry = "run_complete_flow" /\ Returned /\ request.stages.given)
        => caller_stages.list = request.stages.list

Shown(output, label) == {i \in DOMAIN output : output[i][1] = label}

\* the metrics the synthesis tool printed in the run that was summarised
SynthesisPrinted == tools[1].stdout

\* C27: the rendered summary shows a stage metric only when the tool output
\* contained it: a cell count that Yosys did not print is omitted from the
\* summary and never shown as 0.
C27_AbsentMetricsOmitted ==
    (Returned /\ InFlow /\ ret.success /\ Has(ret.results.stage_results, "synthesis")) =>
        /\ Has(SynthesisPrinted, "LUT") <=> Shown(ret.output, "  LUTs: ") # {}
        /\ Has(SynthesisPrinted, "FF") <=> Shown(ret.output, "  FFs: ") # {}
        /\ Has(SynthesisPrinted, "Total") <=> Shown(ret.output, "  Total Cells: ") # {}
        /\ \A i \in DOMAIN ret.output :
                ret.output[i][1] \in {"  LUTs: ", "  FFs: ", "  Total Cells: "}
                    => ret.output[i][2] # 0

\* the external tool that does the work of a stage for a family
StageTool(stage, device_family) ==
    CASE stage = "synthesis" -> "yosys"
      [] stage = "implementation" -> PnrTool(device_family)
      [] stage = "bitstream_generation" ->
            (CASE device_family = "xilinx_7series" -> "fasm"
               [] device_family = "lattice_ice40" -> "icepack"
               [] device_family = "lattice_ecp5" -> "ecppack")
      [] stage = "programming" -> "openFPGALoader"

\* the tool was run in this call and exited with code 0
ExitedZero(tool) ==
    \E j \in DOMAIN tools :
        tools[j].tool = tool /\ tools[j].started /\ tools[j].returncode = 0

\* C28: a stage's adapter reports success exactly when the stage's external
\* tool was run and exited with code 0: no stage is recorded successful
\* without its place-and-route tool, packer, synthesiser or programmer having
\* run, and a stage whose tool exited nonzero is recorded failed.
C28_SuccessIffToolExitZero ==
    (InFlow /\ Has(results, "stage_results")) =>
        \A t \in DOMAIN results.stage_results :
            results.stage_results[t].success
                <=> ExitedZero(StageTool(t, results.device_family))

CompileFailed ==
    /\ sim_tools # <<>>
    /\ sim_tools[1].tool = "iverilog"
    /\ sim_tools[1].outcome # "ok"

NeverFinishes ==
    /\ Len(sim_tools) > 1
    /\ sim_tools[1].outcome = "ok"
    /\ \A i \in 2..Len(sim_tools) : sim_tools[i].outcome \in {"more", "timeout"}

LastYielded == yielded[Len(yielded)]

\* C30: compile_and_simulate runs at most max_chunks chunks, and for a
\* simulation that never finishes the last result it yields has success
\* False, is_complete True and the 'exceeded maximum time limit' error.
C30_BoundedAndExceeded ==
    /\ chunk_count <= max_chunks
    /\ Len(SelectSeq(sim_tools, LAMBDA t : t.tool = "vvp")) <= max_chunks
    /\ (sim_pc = "sim_done" /\ NeverFinishes) =>
            /\ ~LastYielded.success
            /\ LastYielded.is_complete
            /\ LastYielded.error[1] = "Simulation exceeded maximum time limit"

\* the design compiled, the testbench dumped a waveform and every chunk
\* exited with code 0
FinishesAndDumps ==
    /\ Len(sim_tools) > 1
    /\ sim_tools[1].outcome = "ok"
    /\ \A i \in 2..Len(sim_tools) : sim_tools[i].outcome \in {"more", "complete"}
    /\ vcd_exists /\ vcd_content > 0

HasWaveformData(result) ==
    result.waveform_data # <<>> /\ result.waveform_data[1] > 0

\* C31: for a design that compiles and whose testbench finishes and dumps a
\* waveform, every chunk exiting with code 0, the results yielded contain
\* waveform data and the last of them has is_complete True and success True.
C31_DumpingRunCompletes ==
    (sim_pc = "sim_done" /\ FinishesAndDumps) =>
        /\ \E i \in DOMAIN yielded : HasWaveformData(yielded[i])
        /\ LastYielded.is_complete
        /\ LastYielded.success

\* the artifact the predecessor of `stage` recorded in this run
RecordedArtifact(stage) ==
    Get(results.stage_results[Predecessor(stage)].results, ArtifactKey(stage))

\* C32: each dependent stage is called with exactly the artifact its
\* predecessor recorded in this run (netlist_json, the family's placement
\* file, bitstream_file) and with the request's top module, family and part.
C32_ArtifactsThreaded ==
    InFlow =>
        \A i \in DOMAIN calls :
            /\ calls[i].top_module = request.top_module
            /\ calls[i].device_family = request.device_family
            /\ calls[i].device_part = request.device_part
            /\ calls[i].adapter \in DependentStages =>
                    /\ Has(results.stage_results, Predecessor(calls[i].adapter))
                    /\ calls[i].input = RecordedArtifact(calls[i].adapter)
            /\ calls[i].adapter = "synthesis" => calls[i].input = request.verilog_code

\* a run in which all three dependent stages were called, on iCE40
C32_Witness ==
    /\ InFlow /\ Len(calls) = 4
    /\ request.device_family = "lattice_ice40"
    /\ calls[2].input = NetlistText
    /\ calls[3].input = AscText
    /\ calls[4].adapter = "programming" /\ calls[4].input = BitstreamBytes

\* the artifact key and the format tag that belong to one family
FamilyMapping(device_family) ==
    CASE device_family = "xilinx_7series" -> [key |-> "fasm_file", format |-> "fasm"]
      [] device_family = "lattice_ice40" -> [key |-> "asc_file", format |-> "asc"]
      [] device_family = "lattice_ecp5" -> [key |-> "config_file", format |-> "config"]

\* what a bitstream generator answers to a format that is not its family's
FormatMismatchMessages ==
    {"Xilinx 7-Series requires FASM format", "Lattice iCE40 requires ASC format",
     "Lattice ECP5 requires config format", "Unsupported data format"}

\* C33: whenever run_complete_flow calls the bitstream adapter, the artifact
\* and the format tag it passes are those of the requested family's mapping,
\* and the adapter's outcome is never a format mismatch.
C33_FormatMatchesArtifact ==
    InFlow =>
        \A i \in DOMAIN calls :
            calls[i].adapter = "bitstream_generation" =>
                LET m == FamilyMapping(calls[i].device_family)
                IN  /\ calls[i].data_format = m.format
                    /\ calls[i].input
                         = Get(results.stage_results["implementation"].results, m.key)
                    /\ Has(results.stage_results, "bitstream_generation") =>
                         results.stage_results["bitstream_generation"].output
                             \notin FormatMismatchMessages

\* an ECP5 run whose bitstream adapter was handed config_file as config and
\* ran its packer
C33_Witness ==
    /\ InFlow
    /\ request.device_family = "lattice_ecp5"
    /\ Has(results, "stage_results")
    /\ Has(results.stage_results, "bitstream_generation")
    /\ results.stage_results["bitstream_generation"].success
    /\ \E i \in DOMAIN calls :
            /\ calls[i].adapter = "bitstream_generation"
            /\ calls[i].data_format = "config"
            /\ calls[i].input = ConfigText

\* the record lists every stage that has an outcome, by its success
ListsMatchOutcomes(res) ==
    /\ DOMAIN res.stage_results
         = Range(res.stages_completed) \cup Range(res.stages_failed)
    /\ \A t \in DOMAIN res.stage_results :
            /\ t \in Range(res.stages_completed) <=> res.stage_results[t].success
            /\ t \in Range(res.stages_failed) <=> ~res.stage_results[t].success

\* between storing a stage's outcome and listing it (lines 81-93 run as one)
OutcomePcs ==
    {"synthesis_outcome", "implementation_outcome", "bitstream_generation_outcome",
     "programming_outcome"}

\* C34: in every result record of run_complete_flow the stages that have a
\* per-stage outcome are exactly those in stages_completed or stages_failed,
\* and a stage is in stages_completed exactly when its outcome has success
\* True.
C34_ListsMatchOutcomes ==
    /\ (InFlow /\ Has(results, "stage_results") /\ pc \notin OutcomePcs)
            => ListsMatchOutcomes(results)
    /\ (InFlow /\ Returned /\ Has(ret.results, "stage_results"))
            => ListsMatchOutcomes(ret.results)

\* a returned record with two completed stages and a failed one
C34_Witness ==
    /\ InFlow /\ Returned /\ Has(ret.results, "stage_results")
    /\ ret.results.stages_completed = <<"synthesis", "implementation">>
    /\ ret.results.stages_failed = <<"bitstream_generation">>
    /\ DOMAIN ret.results.stage_results
         = {"synthesis", "implementation", "bitstream_generation"}

\* C35: run_complete_flow reports success only if at least one stage ran: a
\* return with success True has a non-empty stages_completed, also for a
\* stages list that selects no stage.
C35_SuccessNeedsAStage ==
    (entry = "run_complete_flow" /\ Returned /\ ret.success) =>
        /\ Has(ret.results, "stages_completed")
        /\ ret.results.stages_completed # <<>>
        /\ calls # <<>>

\* the positions of the results that say the simulation is over
CompleteResults == {i \in DOMAIN yielded : yielded[i].is_complete}

\* C36: every sequence of results yielded by compile_and_simulate holds
\* exactly one result with is_complete True, and it is the last one, also when
\* the simulation finishes, times out or faults in chunk number max_chunks.
C36_OneFinalResult ==
    /\ \A i \in CompleteResults : i = Len(yielded)
    /\ sim_pc = "sim_done" => CompleteResults = {Len(yielded)}

\* the tool runs of the implementation adapter in this run
ImplementationRuns ==
    {i \in DOMAIN tools : "cmd" \in DOMAIN tools[i]}

Options(cmd) == {i \in DOMAIN cmd : cmd[i] \in {<<"--json">>, <<"--pcf">>, <<"--lpf">>,
                                               <<"--asc">>, <<"--textcfg">>, <<"--freq">>,
                                               <<"--chipdb">>, <<"--write">>, <<"--fasm">>,
                                               <<"--xdc">>, <<"-s">>}}

\* every option of the command is followed by a value of its own
WellFormed(cmd) == \A i \in Options(cmd) : i + 1 \in DOMAIN cmd \ Options(cmd)

\* C37: the place-and-route command built for iCE40 and ECP5 is well formed
\* with and without constraints: every option is followed by its own value,
\* and without constraints the command holds no --pcf / --lpf at all.
C37_PnrCommandWellFormed ==
    \A i \in ImplementationRuns :
        tools[i].tool \in {"nextpnr-ice40", "nextpnr-ecp5"} =>
            /\ WellFormed(tools[i].cmd)
            /\ ~HasConstraintsFile(request.constraints) =>
                    /\ <<"--pcf">> \notin Range(tools[i].cmd)
                    /\ <<"--lpf">> \notin Range(tools[i].cmd)

\* C38: when constraints are supplied to the implementation adapter, every
\* constraint file that a script or command of the adapter refers to was
\* written into the workspace before the tool is invoked.
C38_ConstraintFilesWritten ==
    \A i \in ImplementationRuns :
        HasConstraintsFile(request.constraints) =>
            tools[i].refs \subseteq tools[i].files

====
